---- MODULE Spec2Model ----
(***************************************************************************)
(* Logiq: the persistence gateway (database/db_manager.py), the startup    *)
(* hook (main.py) and the admin command handlers (cogs/admin.py).          *)
(*                                                                         *)
(* The document store is modelled by what the driver calls do: a           *)
(* collection is the sequence of its documents in insertion order,         *)
(* find_one returns the first document matching the query, insert_one      *)
(* appends (no unique index is created anywhere in the repository), and    *)
(* update_one changes the first matching document and reports              *)
(* modified_count = 1 only when that document actually changed.            *)
(* Every driver call is one atomic step; a coroutine may be interleaved    *)
(* with others at every await.                                             *)
(***************************************************************************)
EXTENDS Integers, Sequences, FiniteSets, TLC

VARIABLES
    users,       \* db.users: sequence of user documents
    guilds,      \* db.guilds: sequence of guild documents
    client,      \* DatabaseManager.client: "None" | "open" | "closed"
    db,          \* DatabaseManager.db: "None" | "handle"
    _connected,  \* DatabaseManager._connected
    botdb,       \* Logiq.db: "manager" | "None"
    cogdb,       \* Admin.db: "unloaded" until load_cogs, then a copy of Logiq.db
    calls,       \* history: the lifecycle calls made so far, with their outcome
    last,        \* history: the last gateway call made directly, with its result
    prev,        \* history: the gateway call made directly before that one
    ncalls,      \* history: number of gateway calls made directly
    inv,         \* the command / gateway invocations in flight, one per slot
    reminders,   \* db.reminders: sequence of reminder documents
    completed,   \* history: the _ids for which complete_reminder returned True
    messages,    \* the invoking channel: number of messages a purge can delete
    purges,      \* history: the channel.purge requests made, with what each deleted
    sent         \* history: the responses each purge invocation sent, in order

\* the state the gateway, startup and setlogchannel / config operations leave alone
rest == <<reminders, completed, messages, purges, sent>>

vars == <<users, guilds, client, db, _connected, botdb, cogdb, calls, last, prev, ncalls, inv,
          reminders, completed, messages, purges, sent>>

----------------------------------------------------------------------------
(* Bounds of the model *)

MaxDocs == 2
MaxCalls == 3
MaxProcs == 2
MaxOps == 4

(* Input domains *)

\* (user_id, guild_id) keys: one member in two guilds
UserKeys == {<<1, 1>>, <<1, 2>>}
GuildIds == {1, 2}
\* the guild whose record the direct get / create / update calls address
CrudGuildIds == {1}
Channels == {7, 8}
\* asyncio.get_event_loop().time() at the calls that stamp created_at
Times == {1, 2}
Procs == 1..MaxProcs

\* Python's None for an optional reference (channel and role ids are positive)
None == 0

\* data=None, or an empty dict: "if data:" is false for both
EmptyData == <<>>

\* attribute patches passed to create_user / update_user
UserData == {[balance |-> 0], [balance |-> 1000], [xp |-> 5, level |-> 1]}

\* amounts asked of remove_balance, and credited by add_balance
RemoveAmounts == {600, 1200}
AddAmounts == {500}

\* deltas and fields passed to increment_user_field
IncAmounts == {300, 0 - 1500, 0}
IncFieldNames == {"balance"}

\* attribute patches passed to create_guild / update_guild
GuildData == {[log_channel |-> 7], [prefix |-> "!", log_channel |-> None]}

----------------------------------------------------------------------------
(* The driver's document operations *)

Matches(doc, query) ==
    \A f \in DOMAIN query : f \in DOMAIN doc /\ doc[f] = query[f]

MatchIdx(coll, query) ==
    {i \in 1..Len(coll) : Matches(coll[i], query)}

FirstIdx(S) ==
    CHOOSE i \in S : \A j \in S : i <= j

\* find_one: the first matching document, as a sequence of length 0 (None) or 1
find_one(coll, query) ==
    IF MatchIdx(coll, query) = {} THEN <<>>
    ELSE <<coll[FirstIdx(MatchIdx(coll, query))]>>

\* dict.update / the $set operator: field-level replace
SetFields(doc, data) ==
    [f \in DOMAIN doc \cup DOMAIN data |->
        IF f \in DOMAIN data THEN data[f] ELSE doc[f]]

\* an increment that stores the delta instead of adding it
IncFieldsAsSet(doc, data) ==
    [f \in DOMAIN doc \cup DOMAIN data |->
        IF f \in DOMAIN data THEN data[f] ELSE doc[f]]

\* the $inc operator: adds the delta to each named field
IncFields(doc, data) ==
    [f \in DOMAIN doc \cup DOMAIN data |->
        IF f \in DOMAIN data
        THEN (IF f \in DOMAIN doc THEN doc[f] + data[f] ELSE data[f])
        ELSE doc[f]]

\* a push that puts the element in front of the array
PushFieldsFirst(doc, data) ==
    [f \in DOMAIN doc \cup DOMAIN data |->
        IF f \in DOMAIN data
        THEN (IF f \in DOMAIN doc THEN <<data[f]>> \o doc[f] ELSE <<data[f]>>)
        ELSE doc[f]]

\* the $push operator: appends the element to each named array field
PushFields(doc, data) ==
    [f \in DOMAIN doc \cup DOMAIN data |->
        IF f \in DOMAIN data
        THEN (IF f \in DOMAIN doc THEN Append(doc[f], data[f]) ELSE <<data[f]>>)
        ELSE doc[f]]

\* a replacement of the whole document by the patch, instead of a $set
ApplyReplace(doc, update) ==
    update.data

ApplyUpdate(doc, update) ==
    IF update.operator = "$set" THEN SetFields(doc, update.data)
    ELSE IF update.operator = "$push" THEN PushFields(doc, update.data)
    ELSE IncFields(doc, update.data)

\* insert_one: the store assigns _id and appends the document
insert_one(coll, doc) ==
    Append(coll, SetFields(doc, [_id |-> Len(coll) + 1]))

\* an update that changes the last matching document instead of the first
update_one_last(coll, query, update) ==
    IF MatchIdx(coll, query) = {} THEN coll
    ELSE [coll EXCEPT ![CHOOSE i \in MatchIdx(coll, query) :
                           \A j \in MatchIdx(coll, query) : j <= i] = ApplyUpdate(@, update)]

\* an update with upsert=True: inserts the patched query when nothing matches
update_one_upsert(coll, query, update) ==
    IF MatchIdx(coll, query) = {}
    THEN Append(coll, SetFields(ApplyUpdate(query, update), [_id |-> Len(coll) + 1]))
    ELSE [coll EXCEPT ![FirstIdx(MatchIdx(coll, query))] = ApplyUpdate(@, update)]

\* update_one: the collection after the update
update_one(coll, query, update) ==
    IF MatchIdx(coll, query) = {} THEN coll
    ELSE [coll EXCEPT ![FirstIdx(MatchIdx(coll, query))] = ApplyUpdate(@, update)]

\* update_one(...).modified_count
modified_count(coll, query, update) ==
    IF update_one(coll, query, update) = coll THEN 0 ELSE 1

----------------------------------------------------------------------------
(* DatabaseManager: user and guild documents *)

UserQuery(user_id, guild_id) == [user_id |-> user_id, guild_id |-> guild_id]

GuildQuery(guild_id) == [guild_id |-> guild_id]

UserDefaults(user_id, guild_id, t) ==
    [user_id |-> user_id, guild_id |-> guild_id, xp |-> 0, level |-> 0,
     balance |-> 1000, inventory |-> <<>>, warnings |-> <<>>, created_at |-> t]

GuildDefaults(guild_id, t) ==
    [guild_id |-> guild_id, prefix |-> "/", modules |-> <<>>, log_channel |-> None,
     welcome_channel |-> None, verified_role |-> None, created_at |-> t]

\* a create_user that drops the caller's overrides
user_data_defaults_only(user_id, guild_id, data, t) ==
    UserDefaults(user_id, guild_id, t)

\* create_user: the default shape, updated with the caller's overrides if any
user_data(user_id, guild_id, data, t) ==
    IF DOMAIN data # {} THEN SetFields(UserDefaults(user_id, guild_id, t), data)
    ELSE UserDefaults(user_id, guild_id, t)

\* create_guild: the default shape, updated with the caller's overrides if any
guild_data(guild_id, data, t) ==
    IF DOMAIN data # {} THEN SetFields(GuildDefaults(guild_id, t), data)
    ELSE GuildDefaults(guild_id, t)

NoCall == [op |-> "none", key |-> <<>>, data |-> <<>>, ret |-> FALSE, doc |-> <<>>, pre |-> <<>>]

\* history of one direct gateway call: what was asked, what came back, and the
\* document the key named before the call
Record(op, key, data, ret, doc, pre) ==
    /\ last' = [op |-> op, key |-> key, data |-> data, ret |-> ret, doc |-> doc, pre |-> pre]
    /\ prev' = last
    /\ ncalls' = ncalls + 1

get_user(user_id, guild_id) ==
    /\ db = "handle"
    /\ ncalls < MaxCalls
    /\ Record("get_user", <<user_id, guild_id>>, <<>>, FALSE,
              find_one(users, UserQuery(user_id, guild_id)),
              find_one(users, UserQuery(user_id, guild_id)))
    /\ UNCHANGED rest
    /\ UNCHANGED <<users, guilds, client, db, _connected, botdb, cogdb, calls, inv>>

create_user(user_id, guild_id, data, t) ==
    /\ db = "handle"
    /\ ncalls < MaxCalls
    /\ Len(users) < MaxDocs
    /\ users' = insert_one(users, user_data(user_id, guild_id, data, t))
    /\ Record("create_user", <<user_id, guild_id>>, data, FALSE,
              <<users'[Len(users')]>>,
              find_one(users, UserQuery(user_id, guild_id)))
    /\ UNCHANGED rest
    /\ UNCHANGED <<guilds, client, db, _connected, botdb, cogdb, calls, inv>>

update_user(user_id, guild_id, data) ==
    /\ db = "handle"
    /\ ncalls < MaxCalls
    /\ users' = update_one(users, UserQuery(user_id, guild_id),
                           [operator |-> "$set", data |-> data])
    /\ Record("update_user", <<user_id, guild_id>>, data,
              modified_count(users, UserQuery(user_id, guild_id),
                             [operator |-> "$set", data |-> data]) > 0,
              <<>>,
              find_one(users, UserQuery(user_id, guild_id)))
    /\ UNCHANGED rest
    /\ UNCHANGED <<guilds, client, db, _connected, botdb, cogdb, calls, inv>>

get_guild(guild_id) ==
    /\ db = "handle"
    /\ ncalls < MaxCalls
    /\ Record("get_guild", <<guild_id>>, <<>>, FALSE,
              find_one(guilds, GuildQuery(guild_id)),
              find_one(guilds, GuildQuery(guild_id)))
    /\ UNCHANGED rest
    /\ UNCHANGED <<users, guilds, client, db, _connected, botdb, cogdb, calls, inv>>

create_guild(guild_id, data, t) ==
    /\ db = "handle"
    /\ ncalls < MaxCalls
    /\ Len(guilds) < MaxDocs
    /\ guilds' = insert_one(guilds, guild_data(guild_id, data, t))
    /\ Record("create_guild", <<guild_id>>, data, FALSE,
              <<guilds'[Len(guilds')]>>,
              find_one(guilds, GuildQuery(guild_id)))
    /\ UNCHANGED rest
    /\ UNCHANGED <<users, client, db, _connected, botdb, cogdb, calls, inv>>

update_guild(guild_id, data) ==
    /\ db = "handle"
    /\ ncalls < MaxCalls
    /\ guilds' = update_one(guilds, GuildQuery(guild_id),
                            [operator |-> "$set", data |-> data])
    /\ Record("update_guild", <<guild_id>>, data,
              modified_count(guilds, GuildQuery(guild_id),
                             [operator |-> "$set", data |-> data]) > 0,
              <<>>,
              find_one(guilds, GuildQuery(guild_id)))
    /\ UNCHANGED rest
    /\ UNCHANGED <<users, client, db, _connected, botdb, cogdb, calls, inv>>

----------------------------------------------------------------------------
(* Invocation slots *)

Idle == [pc |-> "idle", op |-> "none", key |-> <<>>, field |-> "none", amount |-> 0,
         channel |-> None, user |-> <<>>, item |-> <<>>, ret |-> FALSE, ret2 |-> FALSE,
         resp |-> "none"]

\* the state after construction and a successful connect(): empty store
InitConnected ==
    /\ users = <<>>
    /\ guilds = <<>>
    /\ client = "open"
    /\ db = "handle"
    /\ _connected = TRUE
    /\ botdb = "manager"
    /\ cogdb = "unloaded"
    /\ calls = <<>>
    /\ last = NoCall
    /\ prev = NoCall
    /\ ncalls = 0
    /\ inv = [p \in Procs |-> Idle]
    /\ reminders = <<>>
    /\ completed = {}
    /\ messages = 0
    /\ purges = <<>>
    /\ sent = [p \in Procs |-> <<>>]

\* the state after construction: nothing connected, no cog loaded
InitConstructed ==
    /\ users = <<>>
    /\ guilds = <<>>
    /\ client = "None"
    /\ db = "None"
    /\ _connected = FALSE
    /\ botdb = "manager"
    /\ cogdb = "unloaded"
    /\ calls = <<>>
    /\ last = NoCall
    /\ prev = NoCall
    /\ ncalls = 0
    /\ inv = [p \in Procs |-> Idle]
    /\ reminders = <<>>
    /\ completed = {}
    /\ messages = 0
    /\ purges = <<>>
    /\ sent = [p \in Procs |-> <<>>]

----------------------------------------------------------------------------
(* DatabaseManager: connection lifecycle *)

\* what a connect() meets: the ping answers; the ping fails after the client
\* was created; creating the client already fails
ConnectOutcomes == {"ok", "ping_failed", "client_failed"}

\* connect(): the manager's fields after the call and whether it raised
connect_result(outcome) ==
    [client |-> IF outcome = "client_failed" THEN client ELSE "open",
     db |-> IF outcome = "client_failed" THEN db ELSE "handle",
     connected |-> IF outcome = "ok" THEN TRUE ELSE _connected,
     raised |-> outcome # "ok"]

\* a disconnect() without the "if self.client" guard: fails on a missing client
disconnect_unguarded(c, connected) ==
    IF c # "None"
    THEN [client |-> "closed", connected |-> FALSE, raised |-> FALSE]
    ELSE [client |-> c, connected |-> connected, raised |-> TRUE]

\* disconnect(): the manager's fields after the call and whether it raised
disconnect_result(c, connected) ==
    IF c # "None"
    THEN [client |-> "closed", connected |-> FALSE, raised |-> FALSE]
    ELSE [client |-> c, connected |-> connected, raised |-> FALSE]

connect(outcome) ==
    /\ Len(calls) < MaxOps
    /\ client' = connect_result(outcome).client
    /\ db' = connect_result(outcome).db
    /\ _connected' = connect_result(outcome).connected
    /\ calls' = Append(calls, [op |-> "connect", raised |-> connect_result(outcome).raised])
    /\ UNCHANGED rest
    /\ UNCHANGED <<users, guilds, botdb, cogdb, last, prev, ncalls, inv>>

disconnect ==
    /\ Len(calls) < MaxOps
    /\ client' = disconnect_result(client, _connected).client
    /\ _connected' = disconnect_result(client, _connected).connected
    /\ calls' = Append(calls, [op |-> "disconnect",
                               raised |-> disconnect_result(client, _connected).raised])
    /\ UNCHANGED rest
    /\ UNCHANGED <<users, guilds, db, botdb, cogdb, last, prev, ncalls, inv>>

----------------------------------------------------------------------------
(* Logiq: startup and shutdown *)

\* setup_hook: connect; on failure log and drop the manager; then load the
\* cogs, which hands Logiq.db to the Admin cog
setup_hook(outcome) ==
    /\ cogdb = "unloaded"
    /\ botdb = "manager"
    /\ Len(calls) < MaxOps
    /\ client' = connect_result(outcome).client
    /\ db' = connect_result(outcome).db
    /\ _connected' = connect_result(outcome).connected
    /\ calls' = Append(calls, [op |-> "connect", raised |-> connect_result(outcome).raised])
    /\ botdb' = IF connect_result(outcome).raised THEN "None" ELSE botdb
    /\ cogdb' = botdb'
    /\ UNCHANGED rest
    /\ UNCHANGED <<users, guilds, last, prev, ncalls, inv>>

\* close: disconnect the manager if the bot still has one
close ==
    /\ Len(calls) < MaxOps
    /\ IF botdb # "None"
       THEN /\ client' = disconnect_result(client, _connected).client
            /\ _connected' = disconnect_result(client, _connected).connected
            /\ calls' = Append(calls, [op |-> "disconnect",
                                       raised |-> disconnect_result(client, _connected).raised])
       ELSE /\ calls' = Append(calls, [op |-> "close", raised |-> FALSE])
            /\ UNCHANGED <<client, _connected>>
    /\ UNCHANGED rest
    /\ UNCHANGED <<users, guilds, db, botdb, cogdb, last, prev, ncalls, inv>>

is_connected == _connected

NextLifecycle ==
    \/ \E o \in ConnectOutcomes : connect(o)
    \/ disconnect
    \/ \E o \in ConnectOutcomes : setup_hook(o)
    \/ close

SpecLifecycle == InitConstructed /\ [][NextLifecycle]_vars

\* the index of the most recent connect() in the history, 0 if there is none
LastConnect ==
    IF \E i \in 1..Len(calls) : calls[i].op = "connect"
    THEN CHOOSE i \in 1..Len(calls) :
            /\ calls[i].op = "connect"
            /\ \A j \in (i + 1)..Len(calls) : calls[j].op # "connect"
    ELSE 0

\* C5 as stated: is_connected is true exactly when the most recent connect()
\* completed without raising and no disconnect() was called since.
C5_ConnectedIffLastConnectOk ==
    is_connected <=>
        /\ LastConnect > 0
        /\ ~calls[LastConnect].raised
        /\ \A j \in (LastConnect + 1)..Len(calls) : calls[j].op # "disconnect"

\* C6: disconnect() never raises and leaves is_connected false, in every
\* lifecycle state; called again right after a disconnect() it changes nothing.
C6_DisconnectIdempotent ==
    [][(Len(calls') = Len(calls) + 1 /\ calls'[Len(calls')].op = "disconnect") =>
          /\ ~calls'[Len(calls')].raised
          /\ ~is_connected'
          /\ (Len(calls) > 0 /\ calls[Len(calls)].op = "disconnect") =>
                (client' = client /\ db' = db /\ _connected' = _connected)
      ]_vars

\* C6 witness: disconnect() was called before any connect(), after a failed
\* connect(), and twice in a row
C6_Witness ==
    /\ Len(calls) = 4
    /\ calls[1].op = "disconnect"
    /\ calls[2].op = "connect" /\ calls[2].raised
    /\ calls[3].op = "disconnect"
    /\ calls[4].op = "disconnect"
    /\ ~is_connected

----------------------------------------------------------------------------
(* Admin cog: setlogchannel and config, prefix and slash forms alike *)

Responded(p, pc, resp) ==
    inv' = [inv EXCEPT ![p].pc = pc, ![p].resp = resp]

\* setlogchannel up to its first await: self.db.get_guild(guild.id)
set_log_channel_get_guild(p, guild_id, channel) ==
    /\ inv[p].pc = "idle"
    /\ cogdb # "unloaded"
    /\ IF cogdb = "None"
       THEN inv' = [inv EXCEPT ![p] = [@ EXCEPT !.op = "set_log_channel", !.pc = "raised",
                                                !.key = <<guild_id>>, !.channel = channel]]
       ELSE inv' = [inv EXCEPT ![p] = [@ EXCEPT
                        !.op = "set_log_channel",
                        !.key = <<guild_id>>,
                        !.channel = channel,
                        !.pc = IF Len(find_one(guilds, GuildQuery(guild_id))) = 0
                               THEN "create_guild" ELSE "update_guild"]]
    /\ UNCHANGED rest
    /\ UNCHANGED <<users, guilds, client, db, _connected, botdb, cogdb, calls, last, prev, ncalls>>

\* setlogchannel: no record was found, self.db.create_guild(guild.id)
set_log_channel_create_guild(p, t) ==
    /\ inv[p].pc = "create_guild"
    /\ guilds' = insert_one(guilds, guild_data(inv[p].key[1], EmptyData, t))
    /\ inv' = [inv EXCEPT ![p].pc = "update_guild"]
    /\ UNCHANGED rest
    /\ UNCHANGED <<users, client, db, _connected, botdb, cogdb, calls, last, prev, ncalls>>

\* setlogchannel: self.db.update_guild(guild.id, {'log_channel': channel.id}),
\* then the confirmation
set_log_channel_update_guild(p) ==
    /\ inv[p].pc = "update_guild"
    /\ guilds' = update_one(guilds, GuildQuery(inv[p].key[1]),
                            [operator |-> "$set", data |-> [log_channel |-> inv[p].channel]])
    /\ Responded(p, "done", "Log Channel Set")
    /\ UNCHANGED rest
    /\ UNCHANGED <<users, client, db, _connected, botdb, cogdb, calls, last, prev, ncalls>>

\* config: self.db.get_guild(guild.id), then the reply
config(p, guild_id) ==
    /\ inv[p].pc = "idle"
    /\ cogdb # "unloaded"
    /\ IF cogdb = "None"
       THEN inv' = [inv EXCEPT ![p] = [@ EXCEPT !.op = "config", !.pc = "raised",
                                                !.key = <<guild_id>>]]
       ELSE inv' = [inv EXCEPT ![p] = [@ EXCEPT
                        !.op = "config",
                        !.key = <<guild_id>>,
                        !.pc = "done",
                        !.user = find_one(guilds, GuildQuery(guild_id)),
                        !.resp = IF Len(find_one(guilds, GuildQuery(guild_id))) = 0
                                 THEN "No Configuration" ELSE "Server Configuration"]]
    /\ UNCHANGED rest
    /\ UNCHANGED <<users, guilds, client, db, _connected, botdb, cogdb, calls, last, prev, ncalls>>

NextBot ==
    \/ \E o \in {"ok", "ping_failed"} : setup_hook(o)
    \/ \E p \in Procs, g \in GuildIds, c \in Channels : set_log_channel_get_guild(p, g, c)
    \/ \E p \in Procs, t \in Times : set_log_channel_create_guild(p, t)
    \/ \E p \in Procs : set_log_channel_update_guild(p)
    \/ \E p \in Procs, g \in GuildIds : config(p, g)

SpecBot == InitConstructed /\ [][NextBot]_vars

\* C3 as stated: the store never holds two guild records with one guild_id.
C3_OneRecordPerGuild ==
    \A i, j \in 1..Len(guilds) : guilds[i].guild_id = guilds[j].guild_id => i = j

\* C4 as stated: after a failed connect() in setup_hook the cogs are loaded
\* and every config / setlogchannel invocation ends with a degraded response
\* to the requester, never with an exception out of the handler.
C4_DegradedResponse ==
    (Len(calls) > 0 /\ calls[1].raised) =>
        /\ cogdb # "unloaded"
        /\ \A p \in Procs : inv[p].pc # "idle" =>
              (inv[p].pc = "done" /\ inv[p].resp \in {"No Configuration", "Failure"})

\* C13 as stated: a config invocation for a guild without a stored record has
\* answered "No Configuration" and raised nothing.
C13_NoConfiguration ==
    \A p \in Procs :
        (inv[p].op = "config" /\ MatchIdx(guilds, GuildQuery(inv[p].key[1])) = {}) =>
            (inv[p].pc = "done" /\ inv[p].resp = "No Configuration")

\* the case of C13 that the code meets: with the gateway handed to the cog, a
\* config step that finds no record answers "No Configuration" and writes nothing
C13_ConnectedNoConfiguration ==
    [][\A p \in Procs :
          (/\ cogdb = "manager"
           /\ inv[p].pc = "idle" /\ inv'[p].op = "config"
           /\ MatchIdx(guilds, GuildQuery(inv'[p].key[1])) = {})
          => (/\ inv'[p].pc = "done" /\ inv'[p].resp = "No Configuration"
              /\ guilds' = guilds /\ users' = users)
      ]_vars

\* the setlogchannel invocations made for guild g
SetLogChannelOf(g) ==
    {p \in Procs : inv[p].op = "set_log_channel" /\ inv[p].key = <<g>>}

\* C14: with the gateway connected, once every setlogchannel invocation for a
\* guild has confirmed, get_guild returns a record for the guild, created with
\* the defaults, whose log_channel is the channel of one of those invocations
\* (of the only one, when there is one).
C14_LogChannelSet ==
    cogdb = "manager" =>
        \A g \in GuildIds :
            (/\ SetLogChannelOf(g) # {}
             /\ \A p \in SetLogChannelOf(g) :
                   inv[p].pc = "done" /\ inv[p].resp = "Log Channel Set")
            => /\ Len(find_one(guilds, GuildQuery(g))) = 1
               /\ find_one(guilds, GuildQuery(g))[1].log_channel
                     \in {inv[p].channel : p \in SetLogChannelOf(g)}
               /\ find_one(guilds, GuildQuery(g))[1].prefix = "/"
               /\ find_one(guilds, GuildQuery(g))[1].welcome_channel = None
               /\ find_one(guilds, GuildQuery(g))[1].verified_role = None

\* C14 witness: two invocations for one guild with different channels both
\* created the record and both confirmed
C14_Witness ==
    \E p, q \in Procs :
        /\ inv[p].op = "set_log_channel" /\ inv[p].pc = "done"
        /\ inv[q].op = "set_log_channel" /\ inv[q].pc = "done"
        /\ inv[p].key = inv[q].key
        /\ inv[p].channel # inv[q].channel
        /\ Len(guilds) = 2
        /\ guilds[1].guild_id = guilds[2].guild_id

----------------------------------------------------------------------------
(* DatabaseManager: increments and the economy operations *)

\* {"$inc": {field: amount}}
IncOf(field, amount) == [operator |-> "$inc", data |-> [f \in {field} |-> amount]]

\* user.get("balance", 0)
balance_of(doc) == IF "balance" \in DOMAIN doc THEN doc.balance ELSE 0

\* a remove_balance that only checks that the user exists
sufficient_unchecked(user, amount) ==
    Len(user) = 1

\* remove_balance's test: user and user.get("balance", 0) >= amount
sufficient(user, amount) ==
    Len(user) = 1 /\ balance_of(user[1]) >= amount

\* one increment_user_field call by slot p, the first of the slot
increment_user_field(p, user_id, guild_id, field, amount) ==
    /\ inv[p].pc = "idle"
    /\ db = "handle"
    /\ users' = update_one(users, UserQuery(user_id, guild_id), IncOf(field, amount))
    /\ inv' = [inv EXCEPT ![p] = [@ EXCEPT
                  !.op = "increment_user_field",
                  !.pc = "incremented",
                  !.key = <<user_id, guild_id>>,
                  !.field = field,
                  !.amount = amount,
                  !.ret = modified_count(users, UserQuery(user_id, guild_id),
                                         IncOf(field, amount)) > 0]]
    /\ UNCHANGED rest
    /\ UNCHANGED <<guilds, client, db, _connected, botdb, cogdb, calls, last, prev, ncalls>>

\* the same caller's second call, with the opposite delta
increment_user_field_back(p) ==
    /\ inv[p].pc = "incremented"
    /\ users' = update_one(users, UserQuery(inv[p].key[1], inv[p].key[2]),
                           IncOf(inv[p].field, 0 - inv[p].amount))
    /\ inv' = [inv EXCEPT ![p] = [@ EXCEPT
                  !.pc = "done",
                  !.ret2 = modified_count(users, UserQuery(inv[p].key[1], inv[p].key[2]),
                                          IncOf(inv[p].field, 0 - inv[p].amount)) > 0]]
    /\ UNCHANGED rest
    /\ UNCHANGED <<guilds, client, db, _connected, botdb, cogdb, calls, last, prev, ncalls>>

\* add_balance: increment_user_field(user_id, guild_id, "balance", amount)
add_balance(p, user_id, guild_id, amount) ==
    /\ inv[p].pc = "idle"
    /\ db = "handle"
    /\ users' = update_one(users, UserQuery(user_id, guild_id), IncOf("balance", amount))
    /\ inv' = [inv EXCEPT ![p] = [@ EXCEPT
                  !.op = "add_balance",
                  !.pc = "done",
                  !.key = <<user_id, guild_id>>,
                  !.field = "balance",
                  !.amount = amount,
                  !.ret = modified_count(users, UserQuery(user_id, guild_id),
                                         IncOf("balance", amount)) > 0]]
    /\ UNCHANGED rest
    /\ UNCHANGED <<guilds, client, db, _connected, botdb, cogdb, calls, last, prev, ncalls>>

\* remove_balance up to its write: get_user, then the balance test; a failed
\* test returns False at once
remove_balance_get_user(p, user_id, guild_id, amount) ==
    /\ inv[p].pc = "idle"
    /\ db = "handle"
    /\ inv' = [inv EXCEPT ![p] = [@ EXCEPT
                  !.op = "remove_balance",
                  !.key = <<user_id, guild_id>>,
                  !.field = "balance",
                  !.amount = amount,
                  !.user = find_one(users, UserQuery(user_id, guild_id)),
                  !.pc = IF sufficient(find_one(users, UserQuery(user_id, guild_id)), amount)
                         THEN "increment" ELSE "done",
                  !.ret = FALSE]]
    /\ UNCHANGED rest
    /\ UNCHANGED <<users, guilds, client, db, _connected, botdb, cogdb, calls, last, prev, ncalls>>

\* remove_balance: increment_user_field(user_id, guild_id, "balance", -amount)
remove_balance_increment(p) ==
    /\ inv[p].pc = "increment"
    /\ users' = update_one(users, UserQuery(inv[p].key[1], inv[p].key[2]),
                           IncOf("balance", 0 - inv[p].amount))
    /\ inv' = [inv EXCEPT ![p] = [@ EXCEPT
                  !.pc = "done",
                  !.ret = modified_count(users, UserQuery(inv[p].key[1], inv[p].key[2]),
                                         IncOf("balance", 0 - inv[p].amount)) > 0]]
    /\ UNCHANGED rest
    /\ UNCHANGED <<guilds, client, db, _connected, botdb, cogdb, calls, last, prev, ncalls>>

NextBalance ==
    \/ \E k \in UserKeys : create_user(k[1], k[2], EmptyData, 1)
    \/ \E p \in Procs, k \in UserKeys, a \in RemoveAmounts :
          remove_balance_get_user(p, k[1], k[2], a)
    \/ \E p \in Procs : remove_balance_increment(p)
    \/ \E p \in Procs, k \in UserKeys, a \in AddAmounts : add_balance(p, k[1], k[2], a)

SpecBalance == InitConnected /\ [][NextBalance]_vars

\* C1 as stated: the stored balance is never negative, and of two
\* remove_balance invocations on one key that both read the same balance and
\* whose amounts sum to more than it, at most one returns true.
C1_NoOverdraft ==
    /\ \A i \in 1..Len(users) : users[i].balance >= 0
    /\ \A p, q \in Procs :
          (/\ p # q
           /\ inv[p].op = "remove_balance" /\ inv[p].pc = "done"
           /\ inv[q].op = "remove_balance" /\ inv[q].pc = "done"
           /\ inv[p].key = inv[q].key
           /\ Len(inv[p].user) = 1 /\ Len(inv[q].user) = 1
           /\ inv[p].user[1].balance = inv[q].user[1].balance
           /\ inv[p].amount + inv[q].amount > inv[p].user[1].balance)
          => ~(inv[p].ret /\ inv[q].ret)

\* C2: a remove_balance whose read finds no record, or a balance below the
\* amount, returns false in that same step (nothing can interleave) and leaves
\* the store as it is.
C2_InsufficientFails ==
    [][\A p \in Procs :
          (/\ inv[p].pc = "idle"
           /\ inv'[p].op = "remove_balance"
           /\ \/ \A i \in 1..Len(users) :
                    <<users[i].user_id, users[i].guild_id>> # inv'[p].key
              \/ /\ Len(find_one(users, UserQuery(inv'[p].key[1], inv'[p].key[2]))) = 1
                 /\ find_one(users, UserQuery(inv'[p].key[1], inv'[p].key[2]))[1].balance
                       < inv'[p].amount)
          => (inv'[p].pc = "done" /\ ~inv'[p].ret /\ users' = users)
      ]_vars

\* C2 witness: one remove_balance failed on a balance below its amount and
\* another on a key without a record
C2_Witness ==
    \E p, q \in Procs :
        /\ inv[p].op = "remove_balance" /\ inv[p].pc = "done" /\ ~inv[p].ret
        /\ Len(inv[p].user) = 1 /\ inv[p].user[1].balance < inv[p].amount
        /\ inv[q].op = "remove_balance" /\ inv[q].pc = "done" /\ ~inv[q].ret
        /\ Len(inv[q].user) = 0
        /\ Len(users) > 0

NextInc ==
    \/ \E k \in UserKeys : create_user(k[1], k[2], EmptyData, 1)
    \/ \E p \in Procs, k \in UserKeys, f \in IncFieldNames, a \in IncAmounts :
          increment_user_field(p, k[1], k[2], f, a)
    \/ \E p \in Procs : increment_user_field_back(p)
    \/ \E p \in Procs, k \in UserKeys, a \in AddAmounts : add_balance(p, k[1], k[2], a)

SpecInc == InitConnected /\ [][NextInc]_vars

\* the net balance delta that slot p's calls on key k report as applied
Applied(p, k) ==
    IF inv[p].key = k /\ inv[p].field = "balance"
    THEN (IF inv[p].ret THEN inv[p].amount ELSE 0)
         + (IF inv[p].ret2 THEN 0 - inv[p].amount ELSE 0)
    ELSE 0

RECURSIVE AppliedUpTo(_, _)
AppliedUpTo(n, k) ==
    IF n = 0 THEN 0 ELSE Applied(n, k) + AppliedUpTo(n - 1, k)

\* C10: under every interleaving, the balance of a record created with the
\* defaults is the default plus the deltas of the increments that reported a
\* change, so an increment by n and its increment by -n cancel and no other
\* delta is lost; on a key without a record every increment returns false, and
\* increments create nothing.
C10_IncrementRoundTrip ==
    /\ Len(users) = ncalls
    /\ \A k \in UserKeys :
          IF Len(find_one(users, UserQuery(k[1], k[2]))) = 0
          THEN \A p \in Procs : inv[p].key = k => (~inv[p].ret /\ ~inv[p].ret2)
          ELSE find_one(users, UserQuery(k[1], k[2]))[1].balance
                 = 1000 + AppliedUpTo(MaxProcs, k)

\* C10 witness: an increment by n # 0 and by -n both applied to a record while
\* an add_balance on the same key applied too, and the balance is the default
\* plus the credit
C10_Witness ==
    \E p, q \in Procs :
        /\ inv[p].op = "increment_user_field" /\ inv[p].pc = "done"
        /\ inv[p].field = "balance" /\ inv[p].amount # 0
        /\ inv[p].ret /\ inv[p].ret2
        /\ inv[q].op = "add_balance" /\ inv[q].ret /\ inv[q].key = inv[p].key
        /\ find_one(users, UserQuery(inv[p].key[1], inv[p].key[2]))[1].balance
              = 1000 + inv[q].amount

----------------------------------------------------------------------------
(* Direct calls of the gateway's get / create / update operations *)

NextCrud ==
    \/ \E k \in UserKeys : get_user(k[1], k[2])
    \/ \E k \in UserKeys, d \in UserData \cup {EmptyData}, t \in Times :
          create_user(k[1], k[2], d, t)
    \/ \E k \in UserKeys, d \in UserData : update_user(k[1], k[2], d)
    \/ \E g \in CrudGuildIds : get_guild(g)
    \/ \E g \in CrudGuildIds, d \in GuildData \cup {EmptyData}, t \in Times :
          create_guild(g, d, t)
    \/ \E g \in CrudGuildIds, d \in GuildData : update_guild(g, d)

SpecCrud == InitConnected /\ [][NextCrud]_vars

\* the last direct call was op and it was a step of its own
Called(ops) == ncalls' = ncalls + 1 /\ last'.op \in ops

\* every field the patch names already has the patch's value in doc
AlreadyHas(doc, data) ==
    \A f \in DOMAIN data : f \in DOMAIN doc /\ doc[f] = data[f]

\* C7: update_user / update_guild on a key with no record returns false and
\* leaves the store unchanged (nothing is created); on an existing record it
\* returns false when every supplied field already has the supplied value and
\* true otherwise.
C7_UpdateReportsChange ==
    [][Called({"update_user", "update_guild"}) =>
          LET before == IF last'.op = "update_user" THEN users ELSE guilds
              after == IF last'.op = "update_user" THEN users' ELSE guilds'
              rec == last'.pre
          IN  /\ Len(after) = Len(before)
              /\ Len(rec) = 0 => (~last'.ret /\ users' = users /\ guilds' = guilds)
              /\ (Len(rec) = 1 /\ AlreadyHas(rec[1], last'.data)) =>
                    (~last'.ret /\ users' = users /\ guilds' = guilds)
              /\ (Len(rec) = 1 /\ ~AlreadyHas(rec[1], last'.data)) => last'.ret
      ]_vars

\* C7 witness: an update of a key that has no record returned false, with other
\* records in the store
C7_Witness ==
    /\ last.op = "update_user"
    /\ Len(last.pre) = 0
    /\ ~last.ret
    /\ Len(users) > 0

\* C8: update(key, {f: v}) on an existing key followed by get(key), with no
\* write in between, returns a record whose patched fields have the patch's
\* values and whose other fields are as before the update.
C8_UpdateThenGet ==
    (/\ <<prev.op, last.op>> \in {<<"update_user", "get_user">>, <<"update_guild", "get_guild">>}
     /\ last.key = prev.key
     /\ Len(prev.pre) = 1)
    => /\ Len(last.doc) = 1
       /\ DOMAIN last.doc[1] = DOMAIN prev.pre[1]
       /\ \A f \in DOMAIN prev.data :
             f \in DOMAIN last.doc[1] /\ last.doc[1][f] = prev.data[f]
       /\ \A f \in DOMAIN prev.pre[1] \ DOMAIN prev.data :
             f \in DOMAIN last.doc[1] /\ last.doc[1][f] = prev.pre[1][f]

\* C8 witness: an update that changed an existing user record, then a get of it
C8_Witness ==
    /\ prev.op = "update_user"
    /\ Len(prev.pre) = 1
    /\ prev.ret
    /\ last.op = "get_user"
    /\ last.key = prev.key
    /\ prev.pre[1] # last.doc[1]

\* the record create_user(key, overrides) is expected to store: each default
\* field, replaced by the override where one is supplied
ExpectedUser(call) ==
    [f \in DOMAIN UserDefaults(0, 0, 0) |->
        IF f \in DOMAIN call.data THEN call.data[f]
        ELSE UserDefaults(call.key[1], call.key[2], call.doc[1].created_at)[f]]

GotExpectedUser ==
    /\ Len(last.doc) = 1
    /\ \A f \in DOMAIN ExpectedUser(prev) :
          f \in DOMAIN last.doc[1] /\ last.doc[1][f] = ExpectedUser(prev)[f]

\* C9 as stated: in every store state, also one that already holds a record
\* with the key, create(key, overrides) followed by get(key) returns the
\* defaults merged with the overrides.
C9_CreateThenGet_AnyStore ==
    (prev.op = "create_user" /\ last.op = "get_user" /\ last.key = prev.key)
    => GotExpectedUser

\* C9 amended: the same, when no record with the key existed before the create.
C9_CreateThenGet_FreshKey ==
    (/\ prev.op = "create_user" /\ last.op = "get_user" /\ last.key = prev.key
     /\ Cardinality(MatchIdx(users, UserQuery(prev.key[1], prev.key[2]))) = 1)
    => GotExpectedUser

\* C9 witness: a create with overrides of a key that had no record, then a get
C9_Witness ==
    /\ prev.op = "create_user"
    /\ DOMAIN prev.data # {}
    /\ Len(prev.pre) = 0
    /\ last.op = "get_user"
    /\ last.key = prev.key
    /\ Len(users) = 2

----------------------------------------------------------------------------
(* Admin cog: purge, prefix and slash forms alike *)

\* amounts asked of purge, and the number of deletable messages in the channel
PurgeAmounts == {0 - 5, 0, 1, 50, 100, 101}
ChannelSizes == {0, 10, 120}

\* what the platform answers to channel.purge
PurgeOutcomes == {"ok", "Forbidden"}

\* a range test that lets 0 through
valid_amount_from_zero(amount) ==
    ~(amount < 0 \/ amount > 100)

\* purge's range test: not (amount < 1 or amount > 100)
valid_amount(amount) ==
    ~(amount < 1 \/ amount > 100)

\* channel.purge(limit=amount): how many of the n messages are deleted
channel_purge(n, limit) ==
    IF limit < n THEN limit ELSE n

\* a confirmation that reports the amount asked for
purged_requested(amount, deleted) ==
    [kind |-> "Messages Purged", count |-> amount]

\* "Deleted **{len(deleted)}** messages"
purged_response(amount, deleted) ==
    [kind |-> "Messages Purged", count |-> deleted]

invalid_amount_response == [kind |-> "Invalid Amount", count |-> 0]

forbidden_response == [kind |-> "I don't have permission to delete messages", count |-> 0]

\* the request slot p made, in the history of requests
RequestsOf(p) == {i \in 1..Len(purges) : purges[i].by = p}

\* purge up to its first await: the range test, then either the validation
\* error or the channel.purge request
purge(p, amount) ==
    /\ inv[p].pc = "idle"
    /\ cogdb # "unloaded"
    /\ IF valid_amount(amount)
       THEN /\ inv' = [inv EXCEPT ![p] = [@ EXCEPT !.op = "purge", !.amount = amount,
                                                    !.pc = "purging"]]
            /\ purges' = Append(purges, [by |-> p, limit |-> amount, outcome |-> "pending",
                                         before |-> messages, after |-> messages])
            /\ sent' = sent
       ELSE /\ inv' = [inv EXCEPT ![p] = [@ EXCEPT !.op = "purge", !.amount = amount,
                                                    !.pc = "done"]]
            /\ sent' = [sent EXCEPT ![p] = Append(@, invalid_amount_response)]
            /\ purges' = purges
    /\ UNCHANGED <<reminders, completed, messages>>
    /\ UNCHANGED <<users, guilds, client, db, _connected, botdb, cogdb, calls, last, prev, ncalls>>

\* purge after channel.purge: the confirmation with the number deleted, or
\* the permission error on discord.Forbidden
purge_respond(p, outcome) ==
    /\ inv[p].pc = "purging"
    /\ LET i == CHOOSE i \in RequestsOf(p) : TRUE
           deleted == channel_purge(messages, inv[p].amount)
       IN  IF outcome = "ok"
           THEN /\ messages' = messages - deleted
                /\ purges' = [purges EXCEPT ![i] = [@ EXCEPT !.outcome = "ok",
                                                             !.before = messages,
                                                             !.after = messages - deleted]]
                /\ sent' = [sent EXCEPT ![p] =
                               Append(@, purged_response(inv[p].amount, deleted))]
           ELSE /\ messages' = messages
                /\ purges' = [purges EXCEPT ![i] = [@ EXCEPT !.outcome = "Forbidden",
                                                             !.before = messages,
                                                             !.after = messages]]
                /\ sent' = [sent EXCEPT ![p] = Append(@, forbidden_response)]
    /\ inv' = [inv EXCEPT ![p].pc = "done"]
    /\ UNCHANGED <<reminders, completed>>
    /\ UNCHANGED <<users, guilds, client, db, _connected, botdb, cogdb, calls, last, prev, ncalls>>

\* the state after construction, with some messages in the channel
InitPurge ==
    /\ users = <<>>
    /\ guilds = <<>>
    /\ client = "None"
    /\ db = "None"
    /\ _connected = FALSE
    /\ botdb = "manager"
    /\ cogdb = "unloaded"
    /\ calls = <<>>
    /\ last = NoCall
    /\ prev = NoCall
    /\ ncalls = 0
    /\ inv = [p \in Procs |-> Idle]
    /\ reminders = <<>>
    /\ completed = {}
    /\ messages \in ChannelSizes
    /\ purges = <<>>
    /\ sent = [p \in Procs |-> <<>>]

NextPurge ==
    \/ \E o \in {"ok", "ping_failed"} : setup_hook(o)
    \/ \E p \in Procs, a \in PurgeAmounts : purge(p, a)
    \/ \E p \in Procs, o \in PurgeOutcomes : purge_respond(p, o)

SpecPurge == InitPurge /\ [][NextPurge]_vars

\* C11: a purge with amount < 1 or amount > 100 answers with the validation
\* error and makes no deletion request; every deletion request has a limit in
\* 1..100; and no purge touches the store.
C11_PurgeRejectsOutOfRange ==
    /\ \A i \in 1..Len(purges) : purges[i].limit >= 1 /\ purges[i].limit <= 100
    /\ \A p \in Procs :
          (inv[p].op = "purge" /\ (inv[p].amount < 1 \/ inv[p].amount > 100)) =>
             /\ inv[p].pc = "done"
             /\ sent[p] = <<invalid_amount_response>>
             /\ RequestsOf(p) = {}
    /\ users = <<>> /\ guilds = <<>> /\ reminders = <<>> /\ ncalls = 0

\* C11 witness: a purge of 0 and a purge of 101 were both rejected
C11_Witness ==
    \E p, q \in Procs :
        /\ inv[p].op = "purge" /\ inv[p].amount = 0 /\ inv[p].pc = "done"
        /\ inv[q].op = "purge" /\ inv[q].amount = 101 /\ inv[q].pc = "done"
        /\ messages > 0

----------------------------------------------------------------------------
(* DatabaseManager: reminders *)

\* cursor.to_list(length=100)
ToListLength == 100

\* remind_at of the reminders created, and current_time of the polls
RemindAt == {1, 2}
PollTimes == {1, 2}

\* the ids passed to complete_reminder: the first and second reminder stored,
\* the first one past the list length, and one the store never assigned
ReminderIds == {1, 2, ToListLength + 1, ToListLength + MaxCalls + 1}

\* the document the reminder command passes to create_reminder
reminder_data(remind_at) ==
    [user_id |-> 1, remind_at |-> remind_at, completed |-> FALSE]

\* {"remind_at": {"$lte": current_time}, "completed": False}
due(doc, current_time) ==
    /\ "remind_at" \in DOMAIN doc /\ doc.remind_at <= current_time
    /\ "completed" \in DOMAIN doc /\ doc.completed = FALSE

\* find(...): the matching documents, in store order
find_due(coll, current_time) ==
    SelectSeq(coll, LAMBDA doc : due(doc, current_time))

\* to_list(length): at most the first length documents of the cursor
to_list(cursor, length) ==
    IF Len(cursor) <= length THEN cursor ELSE SubSeq(cursor, 1, length)

create_reminder(remind_at) ==
    /\ db = "handle"
    /\ ncalls < MaxCalls
    /\ reminders' = insert_one(reminders, reminder_data(remind_at))
    /\ Record("create_reminder", <<remind_at>>, reminder_data(remind_at), FALSE,
              <<reminders'[Len(reminders')]>>, <<>>)
    /\ UNCHANGED <<completed, messages, purges, sent>>
    /\ UNCHANGED <<users, guilds, client, db, _connected, botdb, cogdb, calls, inv>>

get_due_reminders(current_time) ==
    /\ db = "handle"
    /\ ncalls < MaxCalls
    /\ Record("get_due_reminders", <<current_time>>, <<>>, FALSE,
              to_list(find_due(reminders, current_time), ToListLength), <<>>)
    /\ UNCHANGED rest
    /\ UNCHANGED <<users, guilds, client, db, _connected, botdb, cogdb, calls, inv>>

complete_reminder(reminder_id) ==
    /\ db = "handle"
    /\ ncalls < MaxCalls
    /\ reminders' = update_one(reminders, [_id |-> reminder_id],
                               [operator |-> "$set", data |-> [completed |-> TRUE]])
    /\ Record("complete_reminder", <<reminder_id>>, <<>>,
              modified_count(reminders, [_id |-> reminder_id],
                             [operator |-> "$set", data |-> [completed |-> TRUE]]) > 0,
              <<>>, find_one(reminders, [_id |-> reminder_id]))
    /\ completed' = IF modified_count(reminders, [_id |-> reminder_id],
                                      [operator |-> "$set", data |-> [completed |-> TRUE]]) > 0
                    THEN completed \cup {reminder_id} ELSE completed
    /\ UNCHANGED <<messages, purges, sent>>
    /\ UNCHANGED <<users, guilds, client, db, _connected, botdb, cogdb, calls, inv>>

\* the store after n create_reminder calls for reminders due at time 1
RECURSIVE Created(_)
Created(n) ==
    IF n = 0 THEN <<>> ELSE insert_one(Created(n - 1), reminder_data(1))

\* a connected gateway whose reminder store is empty, or holds as many pending
\* reminders as one poll lists
InitReminders ==
    /\ users = <<>>
    /\ guilds = <<>>
    /\ client = "open"
    /\ db = "handle"
    /\ _connected = TRUE
    /\ botdb = "manager"
    /\ cogdb = "unloaded"
    /\ calls = <<>>
    /\ last = NoCall
    /\ prev = NoCall
    /\ ncalls = 0
    /\ inv = [p \in Procs |-> Idle]
    /\ reminders \in {Created(0), Created(ToListLength)}
    /\ completed = {}
    /\ messages = 0
    /\ purges = <<>>
    /\ sent = [p \in Procs |-> <<>>]

NextReminders ==
    \/ \E r \in RemindAt : create_reminder(r)
    \/ \E t \in PollTimes : get_due_reminders(t)
    \/ \E i \in ReminderIds : complete_reminder(i)

SpecReminders == InitReminders /\ [][NextReminders]_vars

\* the _ids of the stored reminders due at t and not completed
DueIds(t) ==
    {reminders[i]._id : i \in {j \in 1..Len(reminders) : due(reminders[j], t)}}

\* the _ids a get_due_reminders call returned
ReturnedIds == {last.doc[i]._id : i \in 1..Len(last.doc)}

\* C15 as stated: a get_due_reminders(t) call returns exactly the stored
\* reminders whose remind_at is <= t and that are not completed, and none for
\* which complete_reminder has returned true.
C15_DueExactly ==
    last.op = "get_due_reminders" =>
        /\ ReturnedIds = DueIds(last.key[1])
        /\ ReturnedIds \cap completed = {}

\* C15, the part the code keeps: what a poll returns is due and not completed,
\* it is everything due when at most ToListLength reminders are, and a
\* reminder whose complete_reminder returned true is never listed again.
C15_DueUpToListLength ==
    last.op = "get_due_reminders" =>
        /\ ReturnedIds \subseteq DueIds(last.key[1])
        /\ ReturnedIds \cap completed = {}
        /\ Cardinality(DueIds(last.key[1])) <= ToListLength =>
              ReturnedIds = DueIds(last.key[1])

----------------------------------------------------------------------------
(* DatabaseManager: appends to inventory and warnings *)

\* item records passed to add_item, warning records passed to add_warning
Items == {[name |-> "sword"], [name |-> "potion"]}
Warnings == {[reason |-> "spam"], [reason |-> "flood"]}

\* {"$push": {field: element}}
PushOf(field, element) == [operator |-> "$push", data |-> [f \in {field} |-> element]]

add_item(p, user_id, guild_id, item) ==
    /\ inv[p].pc = "idle"
    /\ db = "handle"
    /\ users' = update_one(users, UserQuery(user_id, guild_id), PushOf("inventory", item))
    /\ inv' = [inv EXCEPT ![p] = [@ EXCEPT
                  !.op = "add_item",
                  !.pc = "done",
                  !.key = <<user_id, guild_id>>,
                  !.field = "inventory",
                  !.item = <<item>>,
                  !.ret = modified_count(users, UserQuery(user_id, guild_id),
                                         PushOf("inventory", item)) > 0]]
    /\ UNCHANGED rest
    /\ UNCHANGED <<guilds, client, db, _connected, botdb, cogdb, calls, last, prev, ncalls>>

add_warning(p, user_id, guild_id, warning) ==
    /\ inv[p].pc = "idle"
    /\ db = "handle"
    /\ users' = update_one(users, UserQuery(user_id, guild_id), PushOf("warnings", warning))
    /\ inv' = [inv EXCEPT ![p] = [@ EXCEPT
                  !.op = "add_warning",
                  !.pc = "done",
                  !.key = <<user_id, guild_id>>,
                  !.field = "warnings",
                  !.item = <<warning>>,
                  !.ret = modified_count(users, UserQuery(user_id, guild_id),
                                         PushOf("warnings", warning)) > 0]]
    /\ UNCHANGED rest
    /\ UNCHANGED <<guilds, client, db, _connected, botdb, cogdb, calls, last, prev, ncalls>>

NextAppend ==
    \/ \E k \in UserKeys : create_user(k[1], k[2], EmptyData, 1)
    \/ \E p \in Procs, k \in UserKeys, i \in Items : add_item(p, k[1], k[2], i)
    \/ \E p \in Procs, k \in UserKeys, w \in Warnings : add_warning(p, k[1], k[2], w)

SpecAppend == InitConnected /\ [][NextAppend]_vars

\* the invocations that appended to field f of key k and returned true
Appended(k, f) ==
    {p \in Procs : inv[p].key = k /\ inv[p].field = f /\ inv[p].ret
                   /\ inv[p].op \in {"add_item", "add_warning"}}

\* the step of an add_item / add_warning by slot p: a call that returns true
\* found a record and has put its element at the end of its field of the first
\* record of the key, everything else as it was; a call that returns false
\* found no record and changed nothing
AppendStep(p) ==
    LET q == UserQuery(inv'[p].key[1], inv'[p].key[2])
        f == inv'[p].field
    IN  IF inv'[p].ret
        THEN /\ MatchIdx(users, q) # {}
             /\ Len(users') = Len(users)
             /\ \A i \in 1..Len(users) :
                   IF i = FirstIdx(MatchIdx(users, q))
                   THEN /\ users'[i][f] = Append(users[i][f], inv'[p].item[1])
                        /\ DOMAIN users'[i] = DOMAIN users[i]
                        /\ \A g \in DOMAIN users[i] \ {f} : users'[i][g] = users[i][g]
                   ELSE users'[i] = users[i]
        ELSE /\ MatchIdx(users, q) = {}
             /\ users' = users

\* C16: under every interleaving of add_item and add_warning, a call that
\* returns true appends exactly its one element to the end of its field and
\* leaves the earlier elements and their order as they were, so the length of a
\* field is the number of appends to it that returned true; on a key without a
\* record the call returns false and creates nothing.
C16_AppendExactlyOne ==
    /\ [][\A p \in Procs :
             (inv[p].pc = "idle" /\ inv'[p].op \in {"add_item", "add_warning"})
                => AppendStep(p)]_vars
    /\ [](/\ Len(users) = ncalls
          /\ \A k \in UserKeys : \A f \in {"inventory", "warnings"} :
                IF Len(find_one(users, UserQuery(k[1], k[2]))) = 0
                THEN Appended(k, f) = {}
                ELSE Len(find_one(users, UserQuery(k[1], k[2]))[1][f])
                        = Cardinality(Appended(k, f)))

\* C16 witness: two add_item calls on one key both returned true and the
\* inventory holds their two different items, the first call's first
C16_Witness ==
    \E p, q \in Procs :
        /\ p # q
        /\ inv[p].op = "add_item" /\ inv[p].ret
        /\ inv[q].op = "add_item" /\ inv[q].ret
        /\ inv[p].key = inv[q].key
        /\ inv[p].item # inv[q].item
        /\ find_one(users, UserQuery(inv[p].key[1], inv[p].key[2]))[1].inventory
              = inv[p].item \o inv[q].item

----------------------------------------------------------------------------
(* DatabaseManager: remove_balance over every integer amount *)

\* amounts asked of remove_balance: positive, zero and negative
AnyAmounts == {600, 0, 0 - 500}

NextRemoveAny ==
    \/ \E k \in UserKeys : create_user(k[1], k[2], EmptyData, 1)
    \/ \E p \in Procs, k \in UserKeys, a \in AnyAmounts :
          remove_balance_get_user(p, k[1], k[2], a)
    \/ \E p \in Procs : remove_balance_increment(p)

SpecRemoveAny == InitConnected /\ [][NextRemoveAny]_vars

\* C17 as stated: for every integer amount, zero and negative ones included,
\* no step of a remove_balance call leaves a stored balance higher than it was.
C17_NeverRaisesBalance ==
    [][\A p \in Procs :
          (inv'[p].op = "remove_balance" /\ inv'[p] # inv[p]) =>
              /\ Len(users') = Len(users)
              /\ \A i \in 1..Len(users) : users'[i].balance <= users[i].balance
      ]_vars

====
